---- MODULE Spec2Model ----
(***************************************************************************)
(* clickhouse-monitor (src/main.go): a sampler goroutine appends one       *)
(* Measurement per tick to `measurements` until the main flow, woken by a  *)
(* signal on sigChan, hands it the stop signal over the unbuffered channel *)
(* `done`; main then renders the log with generateChart.                   *)
(*                                                                         *)
(* Time is the monotonic reading of time.Now(), counted in units of        *)
(* 1/Millisecond ms.  Only the sampler goroutine reads the clock while the *)
(* log grows, so the clock's progress is drawn where the sampler observes  *)
(* it: while a query is in flight and while the goroutine sleeps.          *)
(***************************************************************************)
EXTENDS Integers, Sequences, FiniteSets, TLC

\* ---------------------------------------------------------------- bounds
\* ticks (collectMetrics calls) explored in one session
MaxTicks == 3
\* largest count the metric source returns
MaxCount == 1
\* longest time a query is in flight, in clock units
MaxElapsed == 1
\* Scenario 3 of the specification: a session of five ticks, the third fails
ScenarioTicks == 5
ScenarioFailTick == 3
\* resolution of the clock: units per millisecond
Millisecond == 2
\* logs handed to generateChart on its own: entries, latest timestamp and
\* longest query duration (clock units)
MaxLogLen == 2
MaxTs == 2
MaxDur == 3

\* ------------------------------------------------------- program constants
\* time.Second
Second == 1000 * Millisecond
\* time.Sleep(300 * time.Millisecond)
SleepPeriod == 300 * Millisecond
\* sigChan := make(chan os.Signal, 1)
SigChanCap == 1
\* signal.Notify(sigChan, os.Interrupt, syscall.SIGTERM): main discards the
\* value it receives, so the two signals are one token
Signals == {"signal"}

ErrNone == "nil"
ErrNoMeasurements == "no measurements to plot"
ErrSeries == "series construction failed"
ErrCreate == "error creating file"
ErrWrite == "error writing PNG"
NotCalled == "not called"

VARIABLES
    sigChan,          \* buffered signals, oldest first
    mainPc,           \* main: "wait" (67), "send" (68), "blocked" (68, parked), "render" (70-73), "exited"
    samplerPc,        \* goroutine: "select" (55), "query" (59, in flight), "sleep" (61), "returned" (57)
    measurements,     \* the log
    now,              \* monotonic clock
    start,            \* collectMetrics' local `start`
    printed,          \* one line per tick: what collectMetrics logged or printed
    chart,            \* what generateChart did and returned
    exitCode,         \* process exit status, -1 while running
    emptyAtRequest,   \* history: the log was empty when main read sigChan
    lenAtOffer,       \* history: len(measurements) when main began the send on done, -1 before
    inFlightAtOffer   \* history: a collectMetrics call was in progress at that moment

vars == <<sigChan, mainPc, samplerPc, measurements, now, start,
          printed, chart, exitCode, emptyAtRequest, lenAtOffer, inFlightAtOffer>>

mainVars == <<mainPc, chart, exitCode, emptyAtRequest, lenAtOffer, inFlightAtOffer>>
samplerVars == <<samplerPc, measurements, now, start, printed>>
history == <<emptyAtRequest, lenAtOffer, inFlightAtOffer>>

\* ------------------------------------------------------------ Measurement
Measurement(ts, conns, dur) ==
    [timestamp |-> ts, connections |-> conns, queryDuration |-> dur]

\* a conversion that rounds to the nearest millisecond
MillisecondsRounded(d) == (2 * d + Millisecond) \div (2 * Millisecond)

\* time.Duration.Milliseconds(): integer division truncating toward zero
Milliseconds(d) == IF d >= 0 THEN d \div Millisecond ELSE -((-d) \div Millisecond)

\* time.Duration.Seconds(): the duration as a fraction of a second
Seconds(d) == [num |-> d, den |-> Second]

\* collectMetrics, from the moment the query has answered: `s` is the local
\* start, `ok` whether Scan returned nil, `count` the scanned sum and `t`
\* the clock when time.Since(start) is evaluated.
collectMetrics(s, ok, count, t) ==
    IF ~ok THEN Measurement(s, 0, 0)
    ELSE Measurement(s, count, t - s)

\* what collectMetrics writes: log.Printf on failure, fmt.Println on success
collectOutput(ok, count) ==
    IF ~ok THEN <<"Error querying ClickHouse">>
    ELSE <<"Collected metrics", count>>

\* ----------------------------------------------------------- generateChart
\* plotter.NewLinePoints fails only on a NaN or infinite coordinate; the
\* coordinates built from integers are all finite.
NewLinePointsFails(pts) == FALSE

ChartNotCalled ==
    [err |-> NotCalled, drawn |-> FALSE, fileCreated |-> FALSE, written |-> FALSE,
     connectionPts |-> <<>>, durationPts |-> <<>>]

\* the timestamp itself, not taken relative to the first
AbsoluteTime(log, i) == log[i].timestamp

\* m.timestamp.Sub(startTime), startTime := measurements[0].timestamp
RelativeTime(log, i) == log[i].timestamp - log[1].timestamp

connectionPtsOf(log) ==
    [i \in 1..Len(log) |->
        [X |-> Seconds(RelativeTime(log, i)),
         Y |-> log[i].connections]]

\* a duration series whose y-values lag one entry behind
durationPtsLagging(log) ==
    [i \in 1..Len(log) |->
        [X |-> Seconds(RelativeTime(log, i)),
         Y |-> Milliseconds(log[IF i > 1 THEN i - 1 ELSE i].queryDuration)]]

durationPtsOf(log) ==
    [i \in 1..Len(log) |->
        [X |-> Seconds(RelativeTime(log, i)),
         Y |-> Milliseconds(log[i].queryDuration)]]

\* the drawing and saving part of generateChart, lines 104-193
renderChart(log, createOk, writeOk) ==
    LET cp == connectionPtsOf(log)
        dp == durationPtsOf(log)
        built == [ChartNotCalled EXCEPT !.connectionPts = cp, !.durationPts = dp]
    IN  IF NewLinePointsFails(cp) \/ NewLinePointsFails(dp)
        THEN [built EXCEPT !.err = ErrSeries]
        ELSE IF ~createOk
        THEN [built EXCEPT !.err = ErrCreate, !.drawn = TRUE]
        ELSE IF ~writeOk
        THEN [built EXCEPT !.err = ErrWrite, !.drawn = TRUE, !.fileCreated = TRUE]
        ELSE [built EXCEPT !.err = ErrNone, !.drawn = TRUE, !.fileCreated = TRUE,
                           !.written = TRUE]

\* generateChart without its guard on the empty log: measurements[0] panics
generateChartUnguarded(log, createOk, writeOk) ==
    IF Len(log) = 0
    THEN [ChartNotCalled EXCEPT !.err = "index out of range"]
    ELSE renderChart(log, createOk, writeOk)

\* generateChart(measurements); createOk and writeOk are the outcomes of
\* os.Create and png.WriteTo.
generateChart(log, createOk, writeOk) ==
    IF Len(log) = 0
    THEN [ChartNotCalled EXCEPT !.err = ErrNoMeasurements]
    ELSE renderChart(log, createOk, writeOk)

\* ------------------------------------------------------------------- Init
Init ==
    /\ sigChan = <<>>
    /\ mainPc = "wait"
    /\ samplerPc = "select"
    /\ measurements = <<>>
    /\ now = 0
    /\ start = 0
    /\ printed = <<>>
    /\ chart = ChartNotCalled
    /\ exitCode = -1
    /\ emptyAtRequest = FALSE
    /\ lenAtOffer = -1
    /\ inFlightAtOffer = FALSE

\* ------------------------------------------------------------ environment
\* The operating system delivers SIGINT or SIGTERM; signal.Notify's relay
\* sends without blocking, so a signal that finds sigChan full is dropped.
Signal ==
    /\ mainPc # "exited"
    /\ \E s \in Signals :
          sigChan' = IF Len(sigChan) < SigChanCap THEN Append(sigChan, s) ELSE sigChan
    /\ UNCHANGED <<mainVars, samplerVars>>

\* ------------------------------------------------------------------- main
\* <-sigChan
MainRecvSignal ==
    /\ mainPc = "wait"
    /\ Len(sigChan) > 0
    /\ sigChan' = Tail(sigChan)
    /\ mainPc' = "send"
    /\ emptyAtRequest' = (Len(measurements) = 0)
    /\ UNCHANGED <<samplerVars, chart, exitCode, lenAtOffer, inFlightAtOffer>>

\* done <- true: done is unbuffered and the goroutine never blocks in a
\* receive, so main parks in the channel's send queue.
MainSendDone ==
    /\ mainPc = "send"
    /\ mainPc' = "blocked"
    /\ lenAtOffer' = Len(measurements)
    /\ inFlightAtOffer' = (samplerPc = "query")
    /\ UNCHANGED <<sigChan, samplerVars, chart, exitCode, emptyAtRequest>>

\* a generateChart that rebases the timestamps in the caller's slice
LogRebased(log) ==
    [i \in 1..Len(log) |-> [log[i] EXCEPT !.timestamp = @ - log[1].timestamp]]

\* the caller's slice after generateChart: the function only reads it
LogAfterChart(log) == log

\* a main that goes back to waiting for a signal
AfterChartLoop == "wait"

\* where main goes after generateChart: log.Fatal or the end of main
AfterChart == "exited"

\* generateChart(measurements), then log.Fatal(err) or the return from main
MainGenerateChart ==
    /\ mainPc = "render"
    /\ \E createOk \in BOOLEAN, writeOk \in BOOLEAN :
          chart' = generateChart(measurements, createOk, writeOk)
    /\ measurements' = LogAfterChart(measurements)
    /\ exitCode' = IF chart'.err = ErrNone THEN 0 ELSE 1
    /\ mainPc' = AfterChart
    /\ UNCHANGED <<sigChan, samplerPc, now, start, printed, history>>

\* ---------------------------------------------------------------- sampler
\* a sender is parked on done: the receive case of the select is ready
doneReady == mainPc = "blocked"

\* a select whose default is taken although a case is ready
DefaultAlways == TRUE

\* select takes its default only when no case is ready
DefaultEnabled == ~doneReady

\* a `break` in place of the `return`: it leaves the select, not the loop
AfterDoneBreak == "select"

\* where the goroutine goes after `case <-done`: return
AfterDone == "returned"

\* select { case <-done: return }: the receive completes main's send
SamplerSelectDone ==
    /\ samplerPc = "select"
    /\ doneReady
    /\ samplerPc' = AfterDone
    /\ mainPc' = "render"
    /\ UNCHANGED <<sigChan, measurements, now, start, printed,
                   chart, exitCode, history>>

\* select { default: }, taken only when no case is ready; collectMetrics
\* reads the clock and issues the query
SamplerSelectDefault(limit) ==
    /\ samplerPc = "select"
    /\ DefaultEnabled
    /\ Len(measurements) < limit
    /\ start' = now
    /\ samplerPc' = "query"
    /\ UNCHANGED <<sigChan, mainVars, measurements, now, printed>>

\* a loop that gives up on the first failed query
AfterTickFatal(ok) == IF ok THEN "sleep" ELSE "returned"

\* where the goroutine goes after collectMetrics, whatever the query's
\* outcome: on to time.Sleep
AfterTick(ok) == "sleep"

\* a log that grows at the front
PrependMeasurement(log, m) == <<m>> \o log

\* an append that is skipped once the stop signal is on offer
AppendUnlessStopped(log, m) == IF doneReady THEN log ELSE Append(log, m)

\* measurements = append(measurements, measurement)
AppendMeasurement(log, m) == Append(log, m)

\* the query answers after `e` clock units; collectMetrics returns and the
\* goroutine appends the Measurement
SamplerQueryReturns(okTicks, failTicks) ==
    /\ samplerPc = "query"
    /\ \E e \in 0..MaxElapsed, ok \in BOOLEAN, count \in 0..MaxCount :
          /\ (Len(measurements) + 1) \in (IF ok THEN okTicks ELSE failTicks)
          /\ ~ok => count = 0
          /\ now' = now + e
          /\ measurements' = AppendMeasurement(measurements,
                                               collectMetrics(start, ok, count, now'))
          /\ printed' = Append(printed, collectOutput(ok, count))
          /\ samplerPc' = AfterTick(ok)
    /\ UNCHANGED <<sigChan, mainVars, start>>

\* time.Sleep(300 * time.Millisecond).  The clock moves on by the period; a
\* later wake-up shifts every following timestamp alike, as a longer query
\* does, and is left to that.
SamplerSleep ==
    /\ samplerPc = "sleep"
    /\ now' = now + SleepPeriod
    /\ samplerPc' = "select"
    /\ UNCHANGED <<sigChan, mainVars, measurements, start, printed>>

\* ---------------------------------------------------------- specifications
AllTicks == 1..MaxTicks

Next ==
    \/ Signal
    \/ MainRecvSignal
    \/ MainSendDone
    \/ MainGenerateChart
    \/ SamplerSelectDone
    \/ SamplerSelectDefault(MaxTicks)
    \/ SamplerQueryReturns(AllTicks, AllTicks)
    \/ SamplerSleep

Spec == Init /\ [][Next]_vars

\* Scenario 3: five ticks, of which the third query fails and the others
\* succeed.
ScenarioOkTicks == (1..ScenarioTicks) \ {ScenarioFailTick}

NextScenario3 ==
    \/ Signal
    \/ MainRecvSignal
    \/ MainSendDone
    \/ MainGenerateChart
    \/ SamplerSelectDone
    \/ SamplerSelectDefault(ScenarioTicks)
    \/ SamplerQueryReturns(ScenarioOkTicks, {ScenarioFailTick})
    \/ SamplerSleep

SpecScenario3 == Init /\ [][NextScenario3]_vars

\* Fair scheduling of both goroutines, and every query in flight answers.
\* The operating system owes the process no signal.
FairSpec ==
    /\ Spec
    /\ WF_vars(MainRecvSignal)
    /\ WF_vars(MainSendDone)
    /\ WF_vars(MainGenerateChart)
    /\ WF_vars(SamplerSelectDone)
    /\ WF_vars(SamplerSelectDefault(MaxTicks))
    /\ WF_vars(SamplerQueryReturns(AllTicks, AllTicks))
    /\ WF_vars(SamplerSleep)

\* generateChart on its own.  The logs it is handed are in chronological
\* order, as the goroutine leaves them; Scenario 1 of the specification is
\* one of them: timestamps 0, 300, 600, 900, 1200 ms, counts 3, 5, 5, 2, 4
\* and latencies 10, 12, 9, 15, 11 ms.
Scenario1Log ==
    << Measurement(0, 3, 10 * Millisecond),
       Measurement(300 * Millisecond, 5, 12 * Millisecond),
       Measurement(600 * Millisecond, 5, 9 * Millisecond),
       Measurement(900 * Millisecond, 2, 15 * Millisecond),
       Measurement(1200 * Millisecond, 4, 11 * Millisecond) >>

RenderMeasurements ==
    {Measurement(ts, c, d) : ts \in 0..MaxTs, c \in 0..MaxCount, d \in 0..MaxDur}

RenderLogs ==
    {Scenario1Log} \cup
    UNION {{log \in [1..n -> RenderMeasurements] :
              \A i \in 2..n : log[i].timestamp >= log[i - 1].timestamp} :
           n \in 0..MaxLogLen}

\* main between the handshake and generateChart, with the goroutine returned
InitRender ==
    /\ sigChan = <<>>
    /\ mainPc = "render"
    /\ samplerPc = "returned"
    /\ measurements \in RenderLogs
    /\ now = IF Len(measurements) = 0 THEN 0
             ELSE measurements[Len(measurements)].timestamp
    /\ start = now
    /\ printed = <<>>
    /\ chart = ChartNotCalled
    /\ exitCode = -1
    /\ emptyAtRequest = FALSE
    /\ lenAtOffer = Len(measurements)
    /\ inFlightAtOffer = FALSE

NextRender == MainGenerateChart

SpecRender == InitRender /\ [][NextRender]_vars

\* ------------------------------------------------------------------ claims
HandshakeDone == mainPc \in {"render", "exited"}
ChartCalled == chart.err # NotCalled
TickReturns == samplerPc = "query" /\ samplerPc' # "query"
TickStarts == samplerPc # "query" /\ samplerPc' = "query"
LastOf(log) == log[Len(log)]

\* C1: once main's send on done has completed, the log never changes again:
\* what generateChart reads is the log as it was when the handshake completed.
C1_NoAppendAfterHandshake ==
    [][HandshakeDone =>
          /\ measurements' = measurements
          /\ (mainPc = "render" /\ mainPc' = "exited" /\ Len(measurements) > 0
                 => Len(chart'.connectionPts) = Len(measurements))]_vars

C1_Witness ==
    mainPc = "exited" /\ Len(measurements) >= 2 /\ chart.err = ErrNone

\* C2 as claimed: after main has read sigChan no collectMetrics call starts,
\* and at most one Measurement is appended from then to the handshake (so a
\* log that was empty then never holds more than one).
C2_Original ==
    [][/\ (mainPc # "wait" => ~TickStarts)
       /\ (emptyAtRequest' => Len(measurements') <= 1)]_vars

\* C2 amended: once main is blocked in its send on done, no collectMetrics
\* call starts, and at most one Measurement is appended from then on; it is
\* the one of the call in flight when main began to send.
C2_NoNewTickAfterOffer ==
    [][/\ (mainPc # "wait" /\ mainPc # "send" => ~TickStarts)
       /\ (lenAtOffer' >= 0 =>
              /\ Len(measurements') - lenAtOffer' <= 1
              /\ (Len(measurements') - lenAtOffer' = 1 => inFlightAtOffer'))]_vars

C2_Witness ==
    /\ mainPc = "render"
    /\ emptyAtRequest
    /\ lenAtOffer >= 1
    /\ Len(measurements) = lenAtOffer + 1

\* C3: a Measurement whose collectMetrics call was in progress when the
\* stop signal was offered is in the log, right after the entries that were
\* there, when the goroutine has returned, and generateChart reads it.
C3_InFlightSampleKept ==
    (inFlightAtOffer /\ samplerPc = "returned") =>
        /\ Len(measurements) = lenAtOffer + 1
        /\ LastOf(measurements).timestamp = start
        /\ (mainPc = "exited" => Len(chart.connectionPts) = lenAtOffer + 1)

C3_Witness ==
    inFlightAtOffer /\ mainPc = "exited" /\ chart.err = ErrNone /\ lenAtOffer >= 1

\* C4 as claimed: a termination request read while the log is still empty
\* ends in the empty-log error and no file.
C4_Original ==
    (mainPc = "exited" /\ emptyAtRequest) =>
        chart.err = ErrNoMeasurements /\ ~chart.fileCreated /\ ~chart.written

\* C4 amended: when main begins its send on done before the first
\* collectMetrics call has started, generateChart fails with the empty-log
\* error and no file is created or written.
C4_StopBeforeFirstTick ==
    (mainPc = "exited" /\ lenAtOffer = 0 /\ ~inFlightAtOffer) =>
        chart.err = ErrNoMeasurements /\ ~chart.fileCreated /\ ~chart.written

C4_Witness ==
    mainPc = "exited" /\ lenAtOffer = 0 /\ ~inFlightAtOffer /\ exitCode = 1

\* C5: generateChart returns the empty-log error exactly for the empty log,
\* and then draws nothing, creates no file and writes nothing.
C5_EmptyLogError ==
    ChartCalled =>
        /\ (Len(measurements) = 0 <=> chart.err = ErrNoMeasurements)
        /\ (Len(measurements) = 0 =>
              /\ ~chart.drawn /\ ~chart.fileCreated /\ ~chart.written
              /\ chart.connectionPts = <<>> /\ chart.durationPts = <<>>)

C5_Witness ==
    ChartCalled /\ Len(measurements) = 0 /\ chart.err = ErrNoMeasurements

\* C6: every tick, failed or not, appends exactly one Measurement and goes
\* on to the sleep; nothing else changes the log; the goroutine returns
\* only from its select, by receiving from done.
C6_FailedQueryKeepsLoop ==
    [][/\ (TickReturns =>
              /\ Len(measurements') = Len(measurements) + 1
              /\ Len(printed') = Len(measurements')
              /\ samplerPc' = "sleep")
       /\ (measurements' # measurements => TickReturns)
       /\ (samplerPc # "returned" /\ samplerPc' = "returned" =>
              samplerPc = "select" /\ mainPc = "blocked")]_vars

C6_Witness ==
    /\ Len(measurements) = 2
    /\ printed[1] = collectOutput(FALSE, 0)
    /\ printed[2] = collectOutput(TRUE, 1)

\* C7 as claimed: the Measurement a tick appends carries the timestamp taken
\* before the query and the query's elapsed time, whether the query failed
\* or not.
C7_Claim ==
    [][TickReturns =>
          /\ LastOf(measurements').timestamp = start
          /\ LastOf(measurements').queryDuration = now' - start]_vars

\* the Measurements a successful query started at `s` can return
SuccessMeasurements(s) ==
    {collectMetrics(s, TRUE, c, s + e) : c \in 0..MaxCount, e \in 0..MaxElapsed}

\* C8 as claimed (Scenario 3): after five ticks of which the third failed
\* the log holds five entries, the third is none a successful query can
\* produce, and generateChart returns without the empty-log or series error.
C8_Claim ==
    (Len(printed) = ScenarioTicks) =>
        /\ Len(measurements) = ScenarioTicks
        /\ printed[ScenarioFailTick] = collectOutput(FALSE, 0)
        /\ measurements[ScenarioFailTick] \notin
              SuccessMeasurements(measurements[ScenarioFailTick].timestamp)
        /\ (ChartCalled => chart.err \notin {ErrNoMeasurements, ErrSeries})

\* C9: under FairSpec a termination request main has read leads to
\* generateChart being called; and main gets past its send only with the
\* goroutine's receive, so while a query stays in flight main stays blocked.
C9_ShutdownLiveness ==
    /\ (mainPc = "send") ~> (ChartCalled /\ samplerPc = "returned")
    /\ [][mainPc = "blocked" /\ mainPc' # "blocked" =>
             samplerPc = "select" /\ samplerPc' = "returned"]_vars

C9_Witness ==
    ChartCalled /\ samplerPc = "returned" /\ inFlightAtOffer

\* C10: the log is in chronological order.
C10_Chronological ==
    \A i \in 2..Len(measurements) :
        measurements[i].timestamp >= measurements[i - 1].timestamp

C10_Witness ==
    /\ Len(measurements) = MaxTicks
    /\ measurements[MaxTicks].timestamp > measurements[1].timestamp

\* C11: the log starts empty and changes only by the goroutine appending one
\* Measurement at its end, with main not yet past the handshake; main never
\* writes it, and generateChart runs only with the goroutine returned, so
\* no append coincides with the read.
C11_AppendOnlySingleWriter ==
    /\ measurements = <<>>
    /\ [][/\ (measurements' # measurements =>
                /\ TickReturns
                /\ measurements' = Append(measurements, LastOf(measurements'))
                /\ mainPc' = mainPc
                /\ ~HandshakeDone)
           /\ (mainPc' \in {"render", "exited"} => samplerPc' = "returned")
           /\ (chart' # chart => samplerPc = "returned" /\ measurements' = measurements)]_vars

C11_Witness ==
    samplerPc = "returned" /\ ChartCalled /\ Len(measurements) = MaxTicks

\* fractions with positive denominators
RatLeq(a, b) == a.num * b.den <= b.num * a.den
RatIs(a, n, d) == a.num * d = n * a.den

\* C12: for a non-empty log in chronological order the relative times
\* generateChart derives start at exactly 0 and never decrease.
C12_RelativeTimes ==
    (ChartCalled /\ Len(measurements) > 0) =>
        /\ chart.connectionPts[1].X.num = 0
        /\ chart.durationPts[1].X.num = 0
        /\ \A i \in 2..Len(measurements) :
              /\ RatLeq(chart.connectionPts[i - 1].X, chart.connectionPts[i].X)
              /\ RatLeq(chart.durationPts[i - 1].X, chart.durationPts[i].X)

C12_Witness ==
    /\ ChartCalled
    /\ Len(measurements) = MaxLogLen
    /\ measurements[1].timestamp > 0
    /\ measurements[MaxLogLen].timestamp > measurements[1].timestamp

\* C13: for a log of n Measurements generateChart builds two series of n
\* points; point i of the connections series is (timestamp_i - timestamp_1
\* in seconds, connections_i) and point i of the duration series has the same
\* x and queryDuration_i in whole milliseconds.  On Scenario 1 the x-values
\* are 0.0, 0.3, 0.6, 0.9, 1.2 s.
C13_SeriesPoints ==
    (ChartCalled /\ Len(measurements) > 0) =>
        LET n == Len(measurements)
            cp == chart.connectionPts
            dp == chart.durationPts
        IN  /\ Len(cp) = n /\ Len(dp) = n
            /\ \A i \in 1..n :
                  LET rel == measurements[i].timestamp - measurements[1].timestamp
                  IN  /\ RatIs(cp[i].X, rel, 1000 * Millisecond)
                      /\ cp[i].Y = measurements[i].connections
                      /\ RatIs(dp[i].X, rel, 1000 * Millisecond)
                      /\ dp[i].Y * Millisecond <= measurements[i].queryDuration
                      /\ measurements[i].queryDuration < (dp[i].Y + 1) * Millisecond
            /\ (measurements = Scenario1Log =>
                  /\ n = 5
                  /\ \A i \in 1..5 :
                        /\ RatIs(cp[i].X, 3 * (i - 1), 10)
                        /\ RatIs(dp[i].X, 3 * (i - 1), 10)
                  /\ [i \in 1..5 |-> cp[i].Y] = <<3, 5, 5, 2, 4>>
                  /\ [i \in 1..5 |-> dp[i].Y] = <<10, 12, 9, 15, 11>>)

C13_Witness ==
    ChartCalled /\ measurements = Scenario1Log /\ chart.err = ErrNone

\* C14: whatever generateChart returns (nil, the empty-log error, the
\* file-creation or the PNG-write error), the log after the call is the log
\* before it.
C14_ChartLeavesLog ==
    [][mainPc = "render" /\ mainPc' # "render" =>
          /\ measurements' = measurements
          /\ chart'.err \in {ErrNone, ErrNoMeasurements, ErrSeries, ErrCreate, ErrWrite}]_vars

C14_Witness ==
    /\ ChartCalled
    /\ chart.err = ErrWrite
    /\ Len(measurements) = MaxLogLen
    /\ measurements[1].timestamp > 0

\* C16: once main has read sigChan it never reads it again: it does not go
\* back to waiting, takes no further signal out of sigChan, begins its send
\* on done once and calls generateChart once; a signal that arrives later
\* is only buffered (or dropped) and changes neither the log nor anything
\* main or the goroutine holds.
C16_OneRequestActedOn ==
    [][/\ (mainPc # "wait" =>
              /\ mainPc' # "wait"
              /\ Len(sigChan') >= Len(sigChan)
              /\ (sigChan' # sigChan => UNCHANGED <<mainVars, samplerVars>>))
       /\ (lenAtOffer >= 0 => lenAtOffer' = lenAtOffer /\ mainPc' # "send")
       /\ (ChartCalled => chart' = chart /\ exitCode' = exitCode /\ mainPc' = mainPc)]_vars

C16_Witness ==
    /\ mainPc = "exited"
    /\ Len(sigChan) = 1
    /\ chart.err = ErrNone
    /\ Len(measurements) >= 1

\* the goroutine's first stop check found main already in its send on done
FirstCheckSawStop == lenAtOffer = 0 /\ ~inFlightAtOffer

\* C17: the log generateChart is handed is empty exactly when the
\* goroutine's first stop check found the stop signal on offer; if that
\* check took the default, the log holds at least one Measurement at the
\* handshake and generateChart does not return the empty-log error.
C17_EmptyIffFirstCheckStops ==
    /\ (HandshakeDone => (Len(measurements) = 0 <=> FirstCheckSawStop))
    /\ (ChartCalled =>
          /\ (chart.err = ErrNoMeasurements <=> FirstCheckSawStop)
          /\ (~FirstCheckSawStop => Len(chart.connectionPts) >= 1))

C17_Witness ==
    /\ ChartCalled
    /\ emptyAtRequest
    /\ lenAtOffer = 0
    /\ inFlightAtOffer
    /\ Len(measurements) = 1

\* C18: the y-value of a duration point is the query duration cut down to
\* whole milliseconds: a duration below 1 ms gives 0, and two durations in
\* the same millisecond give the same y.
C18_DurationTruncated ==
    (ChartCalled /\ Len(measurements) > 0) =>
        LET dp == chart.durationPts
            dur(i) == measurements[i].queryDuration
        IN  \A i \in 1..Len(measurements) :
              /\ dp[i].Y * Millisecond <= dur(i)
              /\ dur(i) < (dp[i].Y + 1) * Millisecond
              /\ (dur(i) < Millisecond => dp[i].Y = 0)
              /\ \A j \in 1..Len(measurements) :
                    (\E k \in 0..MaxDur :
                        /\ k * Millisecond <= dur(i) /\ dur(i) < (k + 1) * Millisecond
                        /\ k * Millisecond <= dur(j) /\ dur(j) < (k + 1) * Millisecond)
                    => dp[i].Y = dp[j].Y

C18_Witness ==
    /\ ChartCalled
    /\ Len(measurements) = 2
    /\ measurements[1].queryDuration = Millisecond
    /\ measurements[2].queryDuration = 2 * Millisecond - 1
    /\ chart.durationPts[1].Y = 1
    /\ chart.durationPts[2].Y = 1

====
